---- MODULE Spec2Model ----
(***************************************************************************)
(* Model of the document ingestion core: the structural chunker            *)
(* (ConfluenceChunker.smart_chunk_content), the SQLite chunk store         *)
(* (store_chunks / process_directory / query_chunks), the duplicate        *)
(* detector (detect_duplicates), the batch orchestrator                    *)
(* (process_file_pipeline), the directory walker and extractor dispatch    *)
(* (list_files / extract_text) and the job endpoints (process_documents,   *)
(* get_status, run_processing_job).                                        *)
(*                                                                         *)
(* Text is modelled at character level: a string is a sequence of          *)
(* one-character strings, so that strip(), split() and the regular         *)
(* expressions of the source are computed rather than assumed.             *)
(***************************************************************************)
EXTENDS Integers, Sequences, FiniteSets, TLC

VARIABLES
    \* ---- smart_chunk_content: the locals of the scan loop
    content,                  \* the document text handed to the chunker
    lines,                    \* content.split('\n')
    i,                        \* number of lines consumed (Python's i)
    current_chunk,            \* buffer of lines of the chunk under construction
    current_type,             \* declared type of the buffer
    current_heading_context,  \* stack of [level, text]
    chunks,                   \* chunk dicts emitted so far
    chunk_index,              \* next index to hand out
    pc,                       \* "idle" | "scan" | "done"
    \* ---- chunk store and file system
    files,                    \* path -> current text of the file
    db,                       \* committed rows of table document_chunks
    now,                      \* ingestion clock (created_at)
    last,                     \* what the most recent ingestion read (history)
    \* ---- detect_duplicates
    file_paths,               \* the ordered input paths
    digest,                   \* path -> content digest of the file
    k,                        \* number of paths consumed
    hash_map,                 \* digest -> first path seen
    duplicates,               \* list of <<path, first path>>
    dpc,                      \* "idle" | "loop" | "done" | "raised"
    \* ---- process_file_pipeline
    root_valid,               \* the directory argument names an existing directory
    tree,                     \* matching files under the directory, in walk order
    results,                  \* result records appended so far
    fpos,                     \* number of files the main loop has finished
    calls,                    \* collaborator calls made so far (history)
    ppc,                      \* "idle" | "start" | "dups" | "files" | "returned" | "raised"
    \* ---- store_chunks step by step, and a reader
    conn,                     \* the table as the open connection sees it
    to_store,                 \* the chunks argument of store_chunks
    spos,                     \* number of chunks the for loop has handled
    failed,                   \* positions whose INSERT raised (each is printed)
    spc,                      \* "idle" | "loop" | "done"
    docsets,                  \* path -> previous and latest chunk list stored (history)
    seen,                     \* the latest query_chunks call and its result
    \* ---- list_files over a directory tree, and extract_text on its result
    dir_entries,              \* the regular files under the root: <<directory, name>>
    extensions,               \* the extensions argument
    listed,                   \* the lists returned by the calls so far (history)
    extracted,                \* per file of the first list: the extractor chosen
    \* ---- the job endpoints of main.py
    jobs,                     \* job_id -> entry of the jobs dict
    tasks,                    \* background runs added and not yet finished
    submits,                  \* number of POST /process/ requests so far
    latest,                   \* job_id -> number of its latest submission (history)
    writer,                   \* job_id -> submission that wrote the entry (history)
    got                       \* the latest get_status call and its answer

ckvars == <<content, lines, i, current_chunk, current_type,
            current_heading_context, chunks, chunk_index, pc>>
dbvars == <<files, db, now, last>>
dupvars == <<file_paths, digest, k, hash_map, duplicates, dpc>>
pipevars == <<root_valid, tree, results, fpos, calls, ppc>>
txvars == <<conn, to_store, spos, failed, spc, docsets, seen>>
lsvars == <<dir_entries, extensions, listed, extracted>>
jobvars == <<jobs, tasks, submits, latest, writer, got>>
vars == <<ckvars, dbvars, dupvars, pipevars, txvars, lsvars, jobvars>>

-----------------------------------------------------------------------------
(* Bounds *)

\* longest generated document, in lines
MaxLines == 4

\* ingestion runs per behaviour (caps the created_at clock)
MaxIngests == 3

\* longest list of paths handed to detect_duplicates
MaxFiles == 3

\* POST /process/ requests per behaviour
MaxSubmits == 3

\* the paragraph length guard of smart_chunk_content
ParagraphWordLimit == 500

-----------------------------------------------------------------------------
(* Strings *)

SetMin(S) == CHOOSE x \in S : \A y \in S : x <= y
SetMax(S) == CHOOSE x \in S : \A y \in S : x >= y

\* Python's whitespace, as far as it occurs in the modelled alphabet
SpaceChars == {" ", "\n"}
IsSpace(c) == c \in SpaceChars

\* \w of the re module, over the modelled alphabet
WordChars == {"A", "B", "C", "D", "a", "e", "t", "w", "x", "1"}

DigitChars == {"1"}

\* str.strip()
Strip(s) ==
    LET ns == {n \in 1..Len(s) : ~IsSpace(s[n])}
    IN  IF ns = {} THEN <<>> ELSE SubSeq(s, SetMin(ns), SetMax(ns))

\* sep.join(parts)
RECURSIVE Join(_, _)
Join(parts, sep) ==
    IF Len(parts) = 0 THEN <<>>
    ELSE IF Len(parts) = 1 THEN parts[1]
    ELSE parts[1] \o sep \o Join(Tail(parts), sep)

\* str.split('\n'): always at least one (possibly empty) line
SplitLines(s) ==
    LET nl == {n \in 1..Len(s) : s[n] = "\n"}
        Nth(j) == CHOOSE p \in nl : Cardinality({q \in nl : q < p}) = j - 1
        from(j) == IF j = 1 THEN 1 ELSE Nth(j - 1) + 1
        to(j) == IF j = Cardinality(nl) + 1 THEN Len(s) ELSE Nth(j) - 1
    IN  [j \in 1..(Cardinality(nl) + 1) |-> SubSeq(s, from(j), to(j))]

\* len(s.split()): the number of maximal runs of non-whitespace
WordCount(s) ==
    Cardinality({n \in 1..Len(s) :
                    ~IsSpace(s[n]) /\ (n = 1 \/ IsSpace(s[n - 1]))})

\* length of the maximal prefix of s made of characters of the set cs
PrefixLen(s, cs) ==
    LET bad == {n \in 1..Len(s) : s[n] \notin cs}
    IN  IF bad = {} THEN Len(s) ELSE SetMin(bad) - 1

Hash == "#"
\* The backtick is written "~": the TLA+ lexer accepts no backtick in a string.
Backtick == "~"

-----------------------------------------------------------------------------
(* Line classification, applied to the stripped line *)

\* re.match(r'^#{1,6}\s+', line)
IsHeadingLine(line) ==
    LET h == PrefixLen(line, {Hash})
    IN  h \in 1..6 /\ Len(line) > h /\ IsSpace(line[h + 1])

\* len(heading_match.group(1)) for r'^(#{1,6})\s+(.+)$'
HeadingLevel(line) == PrefixLen(line, {Hash})

\* heading_match.group(2).strip()
HeadingText(line) ==
    Strip(SubSeq(line, PrefixLen(line, {Hash}) + 1, Len(line)))

\* line.startswith(three backticks)
IsFenceLine(line) == Len(line) >= 3 /\ PrefixLen(line, {Backtick}) >= 3

\* re.match(r'^\s*\|.*\|', line)
IsTableRow(line) ==
    LET s == PrefixLen(line, SpaceChars)
    IN  /\ Len(line) > s
        /\ line[s + 1] = "|"
        /\ \E n \in (s + 2)..Len(line) : line[n] = "|"

\* re.match(r'^\s*[-*+]\s+', line) or re.match(r'^\s*\d+\.\s+', line)
IsListItem(line) ==
    LET s == PrefixLen(line, SpaceChars)
        rest == SubSeq(line, s + 1, Len(line))
        d == PrefixLen(rest, DigitChars)
    IN  \/ /\ Len(rest) >= 2
           /\ rest[1] \in {"-", "*", "+"}
           /\ IsSpace(rest[2])
        \/ /\ d >= 1
           /\ Len(rest) >= d + 2
           /\ rest[d + 1] = "."
           /\ IsSpace(rest[d + 2])

\* the if / elif chain of the scan loop, in its order
LineKind(raw) ==
    LET line == Strip(raw)
    IN  IF line = <<>> THEN "blank"
        ELSE IF IsHeadingLine(line) THEN "heading"
        ELSE IF IsFenceLine(line) THEN "code"
        ELSE IF IsTableRow(line) THEN "table"
        ELSE IF IsListItem(line) THEN "list"
        ELSE "paragraph"

-----------------------------------------------------------------------------
(* Chunk construction *)

Unknown == <<"u", "n", "k", "n", "o", "w", "n">>

HierarchySep == <<" ", ">", " ">>

\* re.match(r'^(three backticks)(\w+)', content): the word characters after
\* the fence marker
CodeLanguage(text) ==
    LET rest == SubSeq(text, 4, Len(text))
        w == PrefixLen(rest, WordChars)
    IN  IF IsFenceLine(text) /\ w >= 1 THEN SubSeq(rest, 1, w) ELSE Unknown

\* faulty variant: a heading of the same level is kept (<= for <)
update_heading_context_keeps_siblings(current_context, level, text) ==
    SelectSeq(current_context, LAMBDA h : h.level <= level)
        \o <<[level |-> level, text |-> text]>>

\* [h['level'] for h in context if h['level'] < level] + [{level, text}]
update_heading_context(current_context, level, text) ==
    SelectSeq(current_context, LAMBDA h : h.level < level)
        \o <<[level |-> level, text |-> text]>>

create_chunk_dict(chunk_lines, chunk_type, index, heading_context) ==
    LET raw_content == Join(chunk_lines, <<"\n">>)
        text == Strip(raw_content)
        hierarchy ==
            Join([n \in 1..Len(heading_context) |-> heading_context[n].text],
                 HierarchySep)
        heading_level ==
            IF Len(heading_context) > 0
            THEN heading_context[Len(heading_context)].level ELSE 0
    IN  [chunk_type |-> chunk_type,
         content |-> text,
         raw_content |-> raw_content,
         heading_hierarchy |-> hierarchy,
         heading_level |-> heading_level,
         code_language |-> IF chunk_type = "code" THEN CodeLanguage(text) ELSE <<>>,
         word_count |-> WordCount(text),
         char_count |-> Len(text),
         chunk_index |-> index]

-----------------------------------------------------------------------------
(* The scan loop of smart_chunk_content, one iteration per step.  A loop    *)
(* state is a record of the locals.                                         *)

StartScan ==
    [i |-> 0, current_chunk |-> <<>>, current_type |-> "paragraph",
     current_heading_context |-> <<>>, chunks |-> <<>>, chunk_index |-> 0]

\* faulty variant: the index advances whether or not a chunk is emitted
FlushIf_always_counts(cond, st) ==
    IF cond
    THEN [st EXCEPT
            !.chunks = Append(@, create_chunk_dict(st.current_chunk,
                                  st.current_type, st.chunk_index,
                                  st.current_heading_context)),
            !.chunk_index = @ + 1]
    ELSE [st EXCEPT !.chunk_index = @ + 1]

\* chunks.append(create_chunk_dict(current_chunk, current_type, ...));
\* chunk_index += 1   -- when the buffer is non-empty
FlushIf(cond, st) ==
    IF cond
    THEN [st EXCEPT
            !.chunks = Append(@, create_chunk_dict(st.current_chunk,
                                  st.current_type, st.chunk_index,
                                  st.current_heading_context)),
            !.chunk_index = @ + 1]
    ELSE st

\* faulty variant: an empty line is buffered even when no buffer is open
BlankStep_always_appends(ls, st) ==
    [st EXCEPT !.current_chunk = Append(@, <<>>), !.i = @ + 1]

\* empty line: kept in an open buffer, otherwise skipped
BlankStep(ls, st) ==
    [st EXCEPT
        !.current_chunk = IF st.current_chunk # <<>> THEN Append(@, <<>>) ELSE @,
        !.i = @ + 1]

\* faulty variant: the stack is updated before the pending buffer is flushed
HeadingStep_updates_first(ls, st) ==
    LET line == Strip(ls[st.i + 1])
        u == [st EXCEPT
                !.current_heading_context =
                    update_heading_context(@, HeadingLevel(line), HeadingText(line))]
        f == FlushIf(st.current_chunk # <<>>, u)
    IN  [f EXCEPT
            !.current_chunk = <<line>>,
            !.current_type = "heading",
            !.i = @ + 1]

HeadingStep(ls, st) ==
    LET line == Strip(ls[st.i + 1])
        f == FlushIf(st.current_chunk # <<>>, st)
    IN  [f EXCEPT
            !.current_heading_context =
                update_heading_context(@, HeadingLevel(line), HeadingText(line)),
            !.current_chunk = <<line>>,
            !.current_type = "heading",
            !.i = @ + 1]

\* faulty variant: a heading line ends the block as a closing fence does
FenceEnd_stops_at_heading(ls, from) ==
    LET closing == {n \in (from + 1)..Len(ls) :
                       IsFenceLine(Strip(ls[n])) \/ IsHeadingLine(Strip(ls[n]))}
    IN  IF closing = {} THEN Len(ls) + 1 ELSE SetMin(closing)

\* index (1-based) of the first line after from that closes the fence,
\* Len(ls) + 1 when there is none
FenceEnd(ls, from) ==
    LET closing == {n \in (from + 1)..Len(ls) : IsFenceLine(Strip(ls[n]))}
    IN  IF closing = {} THEN Len(ls) + 1 ELSE SetMin(closing)

\* faulty variant: without a closing fence only the opening line is taken
CodeStep_no_fallback(ls, st) ==
    LET line == Strip(ls[st.i + 1])
        f == FlushIf(st.current_chunk # <<>> /\ st.current_type # "code", st)
        e == FenceEnd(ls, st.i + 1)
        closed == e <= Len(ls)
        code_block == <<line>> \o SubSeq(ls, st.i + 2, IF closed THEN e ELSE st.i + 1)
    IN  [f EXCEPT
            !.chunks = Append(@, create_chunk_dict(code_block, "code",
                                    f.chunk_index, f.current_heading_context)),
            !.chunk_index = @ + 1,
            !.current_chunk = <<>>,
            !.current_type = "paragraph",
            !.i = IF closed THEN e ELSE st.i + 1]

CodeStep(ls, st) ==
    LET line == Strip(ls[st.i + 1])
        f == FlushIf(st.current_chunk # <<>> /\ st.current_type # "code", st)
        e == FenceEnd(ls, st.i + 1)
        closed == e <= Len(ls)
        code_block == <<line>> \o SubSeq(ls, st.i + 2, IF closed THEN e ELSE Len(ls))
    IN  [f EXCEPT
            !.chunks = Append(@, create_chunk_dict(code_block, "code",
                                    f.chunk_index, f.current_heading_context)),
            !.chunk_index = @ + 1,
            !.current_chunk = <<>>,
            !.current_type = "paragraph",
            \* i stops on the closing fence (or at len(lines)), then i += 1
            !.i = e]

\* faulty variant: every line starts a chunk of its own
AccumulateStep_splits_every_line(ls, st, type) ==
    LET line == Strip(ls[st.i + 1])
        f == FlushIf(st.current_chunk # <<>>, st)
    IN  [f EXCEPT
            !.current_chunk = <<line>>,
            !.current_type = type,
            !.i = @ + 1]

\* faulty variant: a line of a new type joins the pending buffer
AccumulateStep_never_flushes(ls, st, type) ==
    [st EXCEPT
        !.current_chunk = Append(@, Strip(ls[st.i + 1])),
        !.current_type = type,
        !.i = @ + 1]

\* table rows and list items: flush on a change of type, then accumulate
AccumulateStep(ls, st, type) ==
    LET line == Strip(ls[st.i + 1])
        change == st.current_type # type
        f == FlushIf(change /\ st.current_chunk # <<>>, st)
    IN  [f EXCEPT
            !.current_chunk = (IF change THEN <<>> ELSE @) \o <<line>>,
            !.current_type = type,
            !.i = @ + 1]

ParagraphStep(ls, st) ==
    LET a == AccumulateStep(ls, st, "paragraph")
        long == WordCount(Join(a.current_chunk, <<" ">>)) > ParagraphWordLimit
        f == FlushIf(long, a)
    IN  [f EXCEPT !.current_chunk = IF long THEN <<>> ELSE @]

\* faulty variant: the buffer left at the end of input is dropped
FinishStep_drops_buffer(st) == st

\* after the loop: flush what is left
FinishStep(st) == FlushIf(st.current_chunk # <<>>, st)

ScanStep(ls, st) ==
    LET kind == LineKind(ls[st.i + 1])
    IN  CASE kind = "blank" -> BlankStep(ls, st)
          [] kind = "heading" -> HeadingStep(ls, st)
          [] kind = "code" -> CodeStep(ls, st)
          [] kind = "table" -> AccumulateStep(ls, st, "table")
          [] kind = "list" -> AccumulateStep(ls, st, "list")
          [] OTHER -> ParagraphStep(ls, st)

RECURSIVE ScanFrom(_, _)
ScanFrom(ls, st) ==
    IF st.i < Len(ls) THEN ScanFrom(ls, ScanStep(ls, st)) ELSE FinishStep(st).chunks

\* smart_chunk_content(content, doc_metadata), run to completion
smart_chunk_content(text) == ScanFrom(SplitLines(text), StartScan)

-----------------------------------------------------------------------------
(* Documents *)

\* n one-letter words separated by single spaces
Words(n) == [c \in 1..(2 * n - 1) |-> IF c % 2 = 1 THEN "w" ELSE " "]

H1A == <<"#", " ", "A">>
H2B == <<"#", "#", " ", "B">>
H3C == <<"#", "#", "#", " ", "C">>
H2D == <<"#", "#", " ", "D">>
Fence == <<Backtick, Backtick, Backtick>>
FenceText == <<Backtick, Backtick, Backtick, "t", "e", "x", "t">>
TableLine == <<"|", "a", "|">>
ListLine == <<"-", " ", "x">>
BlankLine == <<>>
TextLine == <<" ", "w">>

\* the lines documents are generated from
LineVocab == {H1A, H2B, H3C, Fence, FenceText, TableLine, ListLine, BlankLine, TextLine}

SeqsUpTo(S, n) == UNION {[1..m -> S] : m \in 1..n}

\* documents of particular shapes, longer than the generated ones
NestedDoc == <<H1A, H2B, H3C, TextLine, H2D, TextLine>>
LongParagraphDocs ==
    {<<Words(1200)>>,
     <<Words(400), Words(400), Words(400)>>,
     <<Words(300), Words(300), Words(300), Words(300)>>,
     <<H1A, Words(600), TextLine>>}

\* title, paragraph, section heading, two list items, a fenced block
EndToEndDoc == <<H1A, TextLine, H2B, ListLine, ListLine, FenceText, TextLine, Fence>>

\* documents without any non-blank line
WhitespaceLine == <<" ", " ">>
WhitespaceDocs ==
    {<<BlankLine>>, <<WhitespaceLine>>, <<WhitespaceLine, BlankLine, WhitespaceLine>>}

Documents ==
    {Join(d, <<"\n">>) : d \in SeqsUpTo(LineVocab, MaxLines)
                              \cup {NestedDoc, EndToEndDoc} \cup LongParagraphDocs
                              \cup WhitespaceDocs}

-----------------------------------------------------------------------------
(* Chunker: actions *)

ScanState ==
    [i |-> i, current_chunk |-> current_chunk, current_type |-> current_type,
     current_heading_context |-> current_heading_context, chunks |-> chunks,
     chunk_index |-> chunk_index]

SetScanState(st) ==
    /\ i' = st.i
    /\ current_chunk' = st.current_chunk
    /\ current_type' = st.current_type
    /\ current_heading_context' = st.current_heading_context
    /\ chunks' = st.chunks
    /\ chunk_index' = st.chunk_index

\* the loop is at a line of the given kind
AtLine(kind) == pc = "scan" /\ i < Len(lines) /\ LineKind(lines[i + 1]) = kind

Blank ==
    /\ AtLine("blank")
    /\ SetScanState(BlankStep(lines, ScanState))
    /\ UNCHANGED <<content, lines, pc, dbvars, dupvars, pipevars, txvars, lsvars, jobvars>>

Heading ==
    /\ AtLine("heading")
    /\ SetScanState(HeadingStep(lines, ScanState))
    /\ UNCHANGED <<content, lines, pc, dbvars, dupvars, pipevars, txvars, lsvars, jobvars>>

CodeBlock ==
    /\ AtLine("code")
    /\ SetScanState(CodeStep(lines, ScanState))
    /\ UNCHANGED <<content, lines, pc, dbvars, dupvars, pipevars, txvars, lsvars, jobvars>>

TableRow ==
    /\ AtLine("table")
    /\ SetScanState(AccumulateStep(lines, ScanState, "table"))
    /\ UNCHANGED <<content, lines, pc, dbvars, dupvars, pipevars, txvars, lsvars, jobvars>>

ListItem ==
    /\ AtLine("list")
    /\ SetScanState(AccumulateStep(lines, ScanState, "list"))
    /\ UNCHANGED <<content, lines, pc, dbvars, dupvars, pipevars, txvars, lsvars, jobvars>>

Paragraph ==
    /\ AtLine("paragraph")
    /\ SetScanState(ParagraphStep(lines, ScanState))
    /\ UNCHANGED <<content, lines, pc, dbvars, dupvars, pipevars, txvars, lsvars, jobvars>>

\* while-condition false: flush the rest and return chunks
Finish ==
    /\ pc = "scan"
    /\ i >= Len(lines)
    /\ SetScanState(FinishStep(ScanState))
    /\ pc' = "done"
    /\ UNCHANGED <<content, lines, dbvars, dupvars, pipevars, txvars, lsvars, jobvars>>

-----------------------------------------------------------------------------
(* Document processing and the chunk store *)

\* A path is <<directory, stem, suffix>>.
Paths == {<<"d1", "x", ".md">>, <<"d2", "x", ".md">>, <<"d1", "y", ".md">>}

\* Path(doc_path).stem
Stem(path) == path[2]

\* open(file_path) raised: the file cannot be read
NoFile == <<"ENOENT">>

\* hashlib.md5(content.encode()).hexdigest()[:8]: equal for equal content and,
\* collisions of the digest prefix aside, different for different content
Md5Prefix(text) == <<"md5", text>>

\* faulty variant: the id is built from the stem and the content digest only
generate_chunk_id_without_index(doc_path, index, text) ==
    <<Stem(doc_path), 0, Md5Prefix(text)>>

\* f"{stem}_{chunk_index}_{content_hash}"
generate_chunk_id(doc_path, index, text) ==
    <<Stem(doc_path), index, Md5Prefix(text)>>

\* the result of re.search when the pattern matches nowhere
NoMatch == <<"no match">>

\* re.search(r'^#\s+(.+)$', content, re.MULTILINE).group(1), NoMatch when the
\* pattern matches nowhere
TitleGroup(text) ==
    LET n == Len(text)
        \* last position of the whitespace run that starts at q
        RunEnd(q) == q + PrefixLen(SubSeq(text, q, n), SpaceChars) - 1
        \* end of the line that holds position q
        LineEnd(q) ==
            LET nl == {m \in q..n : text[m] = "\n"}
            IN  IF nl = {} THEN n ELSE SetMin(nl) - 1
        \* start of group(1) for a match starting at p, 0 when none: \s+ is
        \* greedy and gives characters back until (.+) has one to take
        GroupStart(pos) ==
            LET e == RunEnd(pos + 1)
                back == {m \in (pos + 2)..e : text[m] # "\n"}
            IN  IF e < n THEN e + 1
                ELSE IF back = {} THEN 0 ELSE SetMax(back)
        starts == {m \in 1..n :
                     /\ m = 1 \/ text[m - 1] = "\n"
                     /\ text[m] = Hash
                     /\ m < n
                     /\ IsSpace(text[m + 1])
                     /\ GroupStart(m) # 0}
    IN  IF starts = {} THEN NoMatch
        ELSE LET g == GroupStart(SetMin(starts))
             IN  SubSeq(text, g, LineEnd(g))

\* metadata['title'] of extract_document_metadata
DocumentTitle(text, file_path) ==
    IF TitleGroup(text) # NoMatch THEN Strip(TitleGroup(text))
    ELSE <<Stem(file_path)>>

\* process_document(file_path): the DocumentChunk list, [] when the file
\* cannot be read; `data` is what the file holds and `at` the clock
process_document(file_path, data, at) ==
    IF data = NoFile THEN <<>>
    ELSE LET chunk_dicts == smart_chunk_content(data)
         IN  [n \in 1..Len(chunk_dicts) |->
                [chunk_id |-> generate_chunk_id(file_path,
                                 chunk_dicts[n].chunk_index, chunk_dicts[n].content),
                 document_path |-> file_path,
                 document_title |-> DocumentTitle(data, file_path),
                 chunk_index |-> chunk_dicts[n].chunk_index,
                 chunk_type |-> chunk_dicts[n].chunk_type,
                 content |-> chunk_dicts[n].content,
                 raw_content |-> chunk_dicts[n].raw_content,
                 heading_hierarchy |-> chunk_dicts[n].heading_hierarchy,
                 heading_level |-> chunk_dicts[n].heading_level,
                 code_language |-> chunk_dicts[n].code_language,
                 word_count |-> chunk_dicts[n].word_count,
                 char_count |-> chunk_dicts[n].char_count,
                 created_at |-> at]]

\* faulty variant: a plain insert into a table without the two constraints
InsertOrReplace_keeps_old(rows, r) == rows \cup {r}

\* faulty variant: only the primary key is enforced, the UNIQUE constraint
\* on (document_path, chunk_index) is missing from the schema
InsertOrReplace_primary_key_only(rows, r) ==
    {x \in rows : x.chunk_id # r.chunk_id} \cup {r}

\* INSERT OR REPLACE under PRIMARY KEY (chunk_id) and
\* UNIQUE (document_path, chunk_index): every row in conflict with the new
\* one is deleted, then the new row is inserted
InsertOrReplace(rows, r) ==
    {x \in rows :
        /\ x.chunk_id # r.chunk_id
        /\ ~(x.document_path = r.document_path /\ x.chunk_index = r.chunk_index)}
      \cup {r}

\* the for loop of store_chunks, then commit
RECURSIVE store_chunks(_, _)
store_chunks(rows, cs) ==
    IF cs = <<>> THEN rows
    ELSE store_chunks(InsertOrReplace(rows, Head(cs)), Tail(cs))

\* the texts files are given
StoreTexts ==
    {Join(d, <<"\n">>) : d \in {<<BlankLine>>, <<H1A>>, <<H1A, TextLine>>,
                                <<TextLine>>}}

\* the environment writes or removes a file
WriteFile(path, data) ==
    /\ files[path] # data
    /\ files' = [files EXCEPT ![path] = data]
    /\ UNCHANGED <<db, now, last, ckvars, dupvars, pipevars, txvars, lsvars, jobvars>>

\* one iteration of process_directory's loop: process_document, then
\* store_chunks when the document has chunks
IngestFile(path) ==
    /\ now < MaxIngests
    /\ LET cs == process_document(path, files[path], now + 1)
       IN  db' = IF cs # <<>> THEN store_chunks(db, cs) ELSE db
    /\ now' = now + 1
    /\ last' = [path |-> path, data |-> files[path], at |-> now + 1,
                repeat |-> last.path = path /\ last.data = files[path]]
    /\ UNCHANGED <<files, ckvars, dupvars, pipevars, txvars, lsvars, jobvars>>

-----------------------------------------------------------------------------
(* detect_duplicates *)

FileNames == {"a.pdf", "b.pdf", "c.pdf", "d.pdf"}

\* values of compute_file_hash: equal exactly for files of equal bytes
Digests == {"H1", "H2", "H3"}

\* open()/read() of compute_file_hash raising (unreadable or vanished file)
IOError == "EIO"

\* compute_file_hash: the digest of the file's bytes, or IOError when it raises
compute_file_hash(path) == digest[path]

\* lists without repetition: os.walk yields every file once
PathLists ==
    {fp \in UNION {[1..m -> FileNames] : m \in 0..MaxFiles} :
        \A a, b \in 1..Len(fp) : a # b => fp[a] # fp[b]}

\* faulty variant: the map is overwritten with the latest path of a digest
detect_step_keeps_latest(hm, dups, path, h) ==
    IF h \in DOMAIN hm
    THEN [hash_map |-> [hm EXCEPT ![h] = path],
          duplicates |-> Append(dups, <<path, hm[h]>>)]
    ELSE [hash_map |-> hm @@ (h :> path), duplicates |-> dups]

\* the body of the for loop: [hash_map, duplicates] after one path
detect_step(hm, dups, path, h) ==
    IF h \in DOMAIN hm
    THEN [hash_map |-> hm, duplicates |-> Append(dups, <<path, hm[h]>>)]
    ELSE [hash_map |-> hm @@ (h :> path), duplicates |-> dups]

DupIteration ==
    /\ dpc = "loop"
    /\ k < Len(file_paths)
    /\ compute_file_hash(file_paths[k + 1]) # IOError
    /\ LET path == file_paths[k + 1]
           r == detect_step(hash_map, duplicates, path, compute_file_hash(path))
       IN  /\ hash_map' = r.hash_map
           /\ duplicates' = r.duplicates
    /\ k' = k + 1
    /\ UNCHANGED <<file_paths, digest, dpc, ckvars, dbvars, pipevars, txvars, lsvars, jobvars>>

DupReturn ==
    /\ dpc = "loop"
    /\ k = Len(file_paths)
    /\ dpc' = "done"
    /\ UNCHANGED <<file_paths, digest, k, hash_map, duplicates, ckvars, dbvars, pipevars, txvars, lsvars, jobvars>>

\* compute_file_hash raises inside the loop: nothing catches it, so
\* detect_duplicates ends with the exception and returns nothing
DupRaise ==
    /\ dpc = "loop"
    /\ k < Len(file_paths)
    /\ compute_file_hash(file_paths[k + 1]) = IOError
    /\ dpc' = "raised"
    /\ UNCHANGED <<file_paths, digest, k, hash_map, duplicates, ckvars, dbvars, pipevars, txvars, lsvars, jobvars>>

-----------------------------------------------------------------------------
(* process_file_pipeline *)

\* list_files: os.walk yields nothing for a root that is not a directory
list_files(valid, walk) == IF valid THEN walk ELSE <<>>

\* extract_text: the text is determined by the bytes of the file
extract_text(path) == <<"text", digest[path]>>

\* the collaborators are external calls: they answer or raise
CollaboratorOutcomes == {"ok", "classify_raises", "policy_raises"}
classify_document(text) == <<"classification", text>>
match_policy(text, metadata) == <<"policy", text, metadata>>

\* any(file_path in dup for dup in duplicates): membership in the pair
is_duplicate(file_path, dups) ==
    \E n \in 1..Len(dups) : file_path = dups[n][1] \/ file_path = dups[n][2]

Call(op, path, outcome) == [op |-> op, file |-> path, outcome |-> outcome]

\* files = list_files(directory), then detect_duplicates(files) is entered
PipeListFiles ==
    /\ ppc = "start"
    /\ file_paths' = list_files(root_valid, tree)
    /\ k' = 0
    /\ hash_map' = <<>>
    /\ duplicates' = <<>>
    /\ dpc' = "loop"
    /\ ppc' = "dups"
    /\ UNCHANGED <<digest, root_valid, tree, results, fpos, calls, ckvars, dbvars, txvars, lsvars, jobvars>>

\* detect_duplicates has ended: its list is bound and results = [], or its
\* exception leaves process_file_pipeline
PipeDuplicatesDone ==
    /\ ppc = "dups"
    /\ dpc \in {"done", "raised"}
    /\ ppc' = IF dpc = "done" THEN "files" ELSE "raised"
    /\ UNCHANGED <<dupvars, root_valid, tree, results, fpos, calls, ckvars, dbvars, txvars, lsvars, jobvars>>

\* one iteration of the for loop
PipeFile ==
    /\ ppc = "files"
    /\ fpos < Len(file_paths)
    /\ compute_file_hash(file_paths[fpos + 1]) # IOError
    /\ \E outcome \in CollaboratorOutcomes :
        LET file_path == file_paths[fpos + 1]
            text == extract_text(file_path)
            file_hash == compute_file_hash(file_path)
            before == calls \o <<Call("extract_text", file_path, "ok"),
                                 Call("compute_file_hash", file_path, "ok")>>
        IN  CASE outcome = "classify_raises" ->
                   /\ calls' = Append(before,
                                  Call("classify_document", file_path, "raised"))
                   /\ ppc' = "raised"
                   /\ UNCHANGED <<results, fpos>>
              [] outcome = "policy_raises" ->
                   /\ calls' = before \o
                                  <<Call("classify_document", file_path, "ok"),
                                    Call("match_policy", file_path, "raised")>>
                   /\ ppc' = "raised"
                   /\ UNCHANGED <<results, fpos>>
              [] OTHER ->
                   /\ calls' = before \o
                                  <<Call("classify_document", file_path, "ok"),
                                    Call("match_policy", file_path, "ok")>>
                   /\ results' = Append(results,
                          [file |-> file_path,
                           hash |-> file_hash,
                           is_duplicate |-> is_duplicate(file_path, duplicates),
                           classification |-> classify_document(text),
                           policy_action |->
                               match_policy(text, [file_path |-> file_path])])
                   /\ fpos' = fpos + 1
                   /\ UNCHANGED ppc
    /\ UNCHANGED <<dupvars, root_valid, tree, ckvars, dbvars, txvars, lsvars, jobvars>>

\* return results
PipeReturn ==
    /\ ppc = "files"
    /\ fpos = Len(file_paths)
    /\ ppc' = "returned"
    /\ UNCHANGED <<dupvars, root_valid, tree, results, fpos, calls, ckvars, dbvars, txvars, lsvars, jobvars>>

-----------------------------------------------------------------------------
(* store_chunks step by step, and query_chunks *)

\* no connection is open
NoConn == <<"closed">>

\* nothing has been asked yet
NoFilters == [key \in {} |-> <<>>]
NoResult == [query_type |-> "none", filters |-> NoFilters, rows |-> <<>>]

\* ORDER BY document_path: the paths in the order of their text
PathOrder == <<<<"d1", "x", ".md">>, <<"d1", "y", ".md">>, <<"d2", "x", ".md">>>>
PathRank(path) == CHOOSE n \in 1..Len(PathOrder) : PathOrder[n] = path

\* LIKE compares ASCII letters without regard to case
SqlLower(c) ==
    CASE c = "A" -> "a" [] c = "B" -> "b" [] c = "C" -> "c" [] c = "D" -> "d"
      [] OTHER -> c

\* text LIKE '%' || sub || '%', for a sub without wildcard characters
Like(text, sub) ==
    \E a \in 0..(Len(text) - Len(sub)) :
        \A n \in 1..Len(sub) : SqlLower(text[a + n]) = SqlLower(sub[n])

\* ORDER BY document_path, chunk_index
RowBefore(x, y) ==
    \/ PathRank(x.document_path) < PathRank(y.document_path)
    \/ /\ x.document_path = y.document_path
       /\ x.chunk_index <= y.chunk_index

RECURSIVE OrderRows(_)
OrderRows(rows) ==
    IF rows = {} THEN <<>>
    ELSE LET first == CHOOSE x \in rows : \A y \in rows : RowBefore(x, y)
         IN  <<first>> \o OrderRows(rows \ {first})

\* the WHERE clause built by query_chunks: the conditions are joined by AND
query_conditions(r, query_type, filters) ==
    /\ (query_type = "by_type" /\ "chunk_type" \in DOMAIN filters) =>
           r.chunk_type = filters["chunk_type"]
    /\ "document_path" \in DOMAIN filters =>
           r.document_path = filters["document_path"]
    /\ "heading_hierarchy" \in DOMAIN filters =>
           Like(r.heading_hierarchy, filters["heading_hierarchy"])

\* query_chunks reads the committed table
query_chunks(rows, query_type, filters) ==
    OrderRows({r \in rows : query_conditions(r, query_type, filters)})

Query(query_type, filters) ==
    /\ seen' = [query_type |-> query_type, filters |-> filters,
                rows |-> query_chunks(db, query_type, filters)]
    /\ UNCHANGED <<conn, to_store, spos, failed, spc, docsets,
                   ckvars, dbvars, dupvars, pipevars, lsvars, jobvars>>

\* faulty variant: the first failing chunk ends the loop
store_step_stops_at_failure(image, fl, pos, cs, written) ==
    IF written
    THEN [conn |-> InsertOrReplace(image, cs[pos + 1]), failed |-> fl,
          spos |-> pos + 1]
    ELSE [conn |-> image, failed |-> fl \cup {pos + 1}, spos |-> Len(cs)]

\* the body of the for loop of store_chunks: the INSERT OR REPLACE of one
\* chunk, or its exception caught and printed; the loop goes on either way
store_step(image, fl, pos, cs, written) ==
    IF written
    THEN [conn |-> InsertOrReplace(image, cs[pos + 1]), failed |-> fl,
          spos |-> pos + 1]
    ELSE [conn |-> image, failed |-> fl \cup {pos + 1}, spos |-> pos + 1]

\* the documents stored step by step: two files of the same stem
TxPaths == {<<"d1", "x", ".md">>, <<"d2", "x", ".md">>}

\* process_directory reads one file (holding data) and, the chunk list
\* being non-empty, enters store_chunks: the connection is opened
BeginStore(path, data) ==
    /\ spc \in {"idle", "done"}
    /\ now < MaxIngests
    /\ LET cs == process_document(path, data, now + 1)
       IN  /\ cs # <<>>
           /\ to_store' = cs
           /\ docsets' = [docsets EXCEPT ![path] =
                              [old |-> @.new, new |-> cs]]
    /\ conn' = db
    /\ spos' = 0
    /\ failed' = {}
    /\ spc' = "loop"
    /\ now' = now + 1
    /\ UNCHANGED <<files, db, last, seen, ckvars, dupvars, pipevars, lsvars, jobvars>>

\* one iteration of the for loop
StoreChunk ==
    /\ spc = "loop"
    /\ spos < Len(to_store)
    /\ \E written \in BOOLEAN :
          LET r == store_step(conn, failed, spos, to_store, written)
          IN  /\ conn' = r.conn
              /\ failed' = r.failed
              /\ spos' = r.spos
    /\ UNCHANGED <<to_store, spc, docsets, seen, ckvars, dbvars, dupvars, pipevars, lsvars, jobvars>>

\* conn.commit(); conn.close()
Commit ==
    /\ spc = "loop"
    /\ spos = Len(to_store)
    /\ db' = conn
    /\ conn' = NoConn
    /\ spc' = "done"
    /\ UNCHANGED <<files, now, last, to_store, spos, failed, docsets, seen,
                   ckvars, dupvars, pipevars, lsvars, jobvars>>

-----------------------------------------------------------------------------
(* list_files and extract_text *)

\* str.lower() over the letters of the modelled file names
str_lower(name) ==
    [n \in 1..Len(name) |->
        CASE name[n] = "B" -> "b" [] name[n] = "C" -> "c" [] name[n] = "D" -> "d"
          [] name[n] = "F" -> "f" [] name[n] = "O" -> "o" [] name[n] = "P" -> "p"
          [] name[n] = "X" -> "x" [] OTHER -> name[n]]

\* str.endswith(suffix): exact match of the last characters
EndsWith(name, suffix) ==
    /\ Len(suffix) <= Len(name)
    /\ SubSeq(name, Len(name) - Len(suffix) + 1, Len(name)) = suffix

ExtPdf == <<".", "p", "d", "f">>
ExtDocx == <<".", "d", "o", "c", "x">>
ExtZip == <<".", "z", "i", "p">>

\* extensions = [".pdf", ".docx", ".zip"] when the caller gives none
DefaultExtensions == <<ExtPdf, ExtDocx, ExtZip>>

\* the directories os.walk visits, top-down
WalkDirs == <<"root", "root/sub">>

\* os.walk: directory by directory, the files of each in the order in which
\* the platform lists them (order: some enumeration of the entries)
walk(order) ==
    SelectSeq(order, LAMBDA e : e[1] = WalkDirs[1]) \o
    SelectSeq(order, LAMBDA e : e[1] = WalkDirs[2])

\* any(f.lower().endswith(ext) for ext in extensions)
matches(name, exts) ==
    \E n \in 1..Len(exts) : EndsWith(str_lower(name), exts[n])

\* list_files(root_dir, extensions) under one listing order; a path is
\* os.path.join(root, f), here the pair <<directory, name>>
list_files_in(order, exts) ==
    SelectSeq(walk(order), LAMBDA e : matches(e[2], exts))

\* extract_text: the extractor the path is dispatched to, "none" for the
\* else branch that returns ""
extract_dispatch(name) ==
    IF EndsWith(name, ExtPdf) THEN "extract_pdf"
    ELSE IF EndsWith(name, ExtDocx) THEN "extract_docx"
    ELSE IF EndsWith(name, ExtZip) THEN "extract_zip"
    ELSE "none"

\* the enumerations of a finite set
Orders(S) ==
    {o \in [1..Cardinality(S) -> S] : \A a, b \in DOMAIN o : a # b => o[a] # o[b]}

\* one call of list_files; the platform lists the entries in some order
ListFiles ==
    /\ Len(listed) < 2
    /\ \E order \in Orders(dir_entries) :
          listed' = Append(listed, list_files_in(order, extensions))
    /\ UNCHANGED <<dir_entries, extensions, extracted, jobvars, ckvars, dbvars, dupvars, pipevars, txvars>>

\* the pipeline's loop on the first list: content = extract_text(file_path)
ExtractNext ==
    /\ listed # <<>>
    /\ Len(extracted) < Len(listed[1])
    /\ LET file_path == listed[1][Len(extracted) + 1]
       IN  extracted' = Append(extracted,
               [file |-> file_path, extractor |-> extract_dispatch(file_path[2])])
    /\ UNCHANGED <<dir_entries, extensions, listed, jobvars, ckvars, dbvars, dupvars, pipevars, txvars>>

-----------------------------------------------------------------------------
(* main.py: process_documents, get_status, run_processing_job *)

JobIds == {"j1", "j2"}
Directories == {"dirA", "dirB"}

\* a key the entry does not have
NoValue == <<"absent">>

\* jobs.get(job_id) when the id was never submitted
NoJob == [status |-> "none", result |-> NoValue, error |-> NoValue]

\* what process_file_pipeline returns for a directory
PipelineResult(directory) == <<"results", directory>>

\* the entry run_processing_job stores: try / except around the pipeline
finish_entry(task, outcome) ==
    IF outcome = "complete"
    THEN [status |-> "complete", result |-> PipelineResult(task.directory),
          error |-> NoValue]
    ELSE [status |-> "error", result |-> NoValue, error |-> <<"str(e)">>]

\* POST /process/: register the job and add the background task
process_documents(job_id, directory) ==
    /\ submits < MaxSubmits
    /\ submits' = submits + 1
    /\ jobs' = [jobs EXCEPT ![job_id] =
                  [status |-> "processing", result |-> <<"None">>, error |-> NoValue]]
    /\ tasks' = tasks \cup
                  {[job_id |-> job_id, directory |-> directory, sub |-> submits + 1]}
    /\ latest' = [latest EXCEPT ![job_id] = submits + 1]
    /\ writer' = [writer EXCEPT ![job_id] = submits + 1]
    /\ UNCHANGED <<got, lsvars, ckvars, dbvars, dupvars, pipevars, txvars>>

\* a background run comes to its end: the pipeline returned or raised
run_processing_job(task) ==
    /\ task \in tasks
    /\ \E outcome \in {"complete", "error"} :
          jobs' = [jobs EXCEPT ![task.job_id] =
                      finish_entry(task, outcome)]
    /\ writer' = [writer EXCEPT ![task.job_id] = task.sub]
    /\ tasks' = tasks \ {task}
    /\ UNCHANGED <<submits, latest, got, lsvars, ckvars, dbvars, dupvars, pipevars, txvars>>

\* GET /status/{job_id}: the entry, or 404 when there is none
get_status(job_id) ==
    /\ got' = [job_id |-> job_id,
               answer |-> IF jobs[job_id] = NoJob THEN [NoJob EXCEPT !.status = "404"]
                          ELSE jobs[job_id]]
    /\ UNCHANGED <<jobs, tasks, submits, latest, writer, lsvars, ckvars, dbvars, dupvars, pipevars, txvars>>

-----------------------------------------------------------------------------
(* Specifications *)

ListIdle ==
    /\ dir_entries = {}
    /\ extensions = DefaultExtensions
    /\ listed = <<>>
    /\ extracted = <<>>

JobIdle ==
    /\ jobs = [id \in JobIds |-> NoJob]
    /\ tasks = {}
    /\ submits = 0
    /\ latest = [id \in JobIds |-> 0]
    /\ writer = [id \in JobIds |-> 0]
    /\ got = [job_id |-> "none", answer |-> NoJob]

ChunkerIdle ==
    /\ content = <<>>
    /\ lines = <<>>
    /\ i = 0
    /\ current_chunk = <<>>
    /\ current_type = "paragraph"
    /\ current_heading_context = <<>>
    /\ chunks = <<>>
    /\ chunk_index = 0
    /\ pc = "idle"

StoreIdle ==
    /\ files = [p \in Paths |-> NoFile]
    /\ db = {}
    /\ now = 0
    /\ last = [path |-> <<>>, data |-> NoFile, at |-> 0, repeat |-> FALSE]

DupIdle ==
    /\ file_paths = <<>>
    /\ digest = [f \in FileNames |-> "H1"]
    /\ k = 0
    /\ hash_map = <<>>
    /\ duplicates = <<>>
    /\ dpc = "idle"

TxIdle ==
    /\ conn = NoConn
    /\ to_store = <<>>
    /\ spos = 0
    /\ failed = {}
    /\ spc = "idle"
    /\ docsets = [p \in Paths |-> [old |-> <<>>, new |-> <<>>]]
    /\ seen = NoResult

PipeIdle ==
    /\ root_valid = TRUE
    /\ tree = <<>>
    /\ results = <<>>
    /\ fpos = 0
    /\ calls = <<>>
    /\ ppc = "idle"

\* the chunker run on one document
ChunkInit ==
    /\ content \in Documents
    /\ lines = SplitLines(content)
    /\ i = 0
    /\ current_chunk = <<>>
    /\ current_type = "paragraph"
    /\ current_heading_context = <<>>
    /\ chunks = <<>>
    /\ chunk_index = 0
    /\ pc = "scan"
    /\ StoreIdle
    /\ DupIdle
    /\ PipeIdle
    /\ TxIdle /\ ListIdle /\ JobIdle

ChunkNext ==
    \/ Blank
    \/ Heading
    \/ CodeBlock
    \/ TableRow
    \/ ListItem
    \/ Paragraph
    \/ Finish

ChunkSpec == ChunkInit /\ [][ChunkNext]_vars

\* files written and ingested into one store
StoreInit == ChunkerIdle /\ StoreIdle /\ DupIdle /\ PipeIdle /\ TxIdle /\ ListIdle /\ JobIdle

StoreNext ==
    \/ \E path \in Paths, data \in StoreTexts \cup {NoFile} : WriteFile(path, data)
    \/ \E path \in Paths : IngestFile(path)

StoreSpec == StoreInit /\ [][StoreNext]_vars

\* detect_duplicates run on one list of paths
DupInit ==
    /\ file_paths \in PathLists
    /\ digest \in [FileNames -> Digests]
    /\ k = 0
    /\ hash_map = <<>>
    /\ duplicates = <<>>
    /\ dpc = "loop"
    /\ ChunkerIdle
    /\ StoreIdle
    /\ PipeIdle
    /\ TxIdle /\ ListIdle /\ JobIdle

DupNext == DupIteration \/ DupReturn

DupSpec == DupInit /\ [][DupNext]_vars

\* process_file_pipeline called on one directory; files outside the walk
\* play no part and keep one digest
PipeInit ==
    /\ root_valid \in BOOLEAN
    /\ tree \in PathLists
    /\ root_valid = FALSE => tree = <<>>
    /\ digest \in [FileNames -> Digests \cup {IOError}]
    /\ \A f \in FileNames : (\A n \in 1..Len(tree) : tree[n] # f) => digest[f] = "H1"
    /\ file_paths = <<>>
    /\ k = 0
    /\ hash_map = <<>>
    /\ duplicates = <<>>
    /\ dpc = "idle"
    /\ results = <<>>
    /\ fpos = 0
    /\ calls = <<>>
    /\ ppc = "start"
    /\ ChunkerIdle
    /\ StoreIdle
    /\ TxIdle /\ ListIdle /\ JobIdle

PipeNext ==
    \/ PipeListFiles
    \/ DupIteration
    \/ DupRaise
    \/ DupReturn
    \/ PipeDuplicatesDone
    \/ PipeFile
    \/ PipeReturn

PipeSpec == PipeInit /\ [][PipeNext]_vars

Init == ChunkInit
Next == ChunkNext
Spec == ChunkSpec

-----------------------------------------------------------------------------
(* Reference definitions used to state the properties.  They are written     *)
(* from the statements, over the input lines and the emitted chunks, and     *)
(* call none of the step operators above.                                    *)

Last(q) == q[Len(q)]
Front(q) == SubSeq(q, 1, Len(q) - 1)

\* the sum of a sequence of numbers
RECURSIVE Sum(_)
Sum(q) == IF q = <<>> THEN 0 ELSE Head(q) + Sum(Tail(q))

\* the elements of a set of numbers, ascending
RECURSIVE Ascending(_)
Ascending(S) ==
    IF S = {} THEN <<>> ELSE <<SetMin(S)>> \o Ascending(S \ {SetMin(S)})

TypesOf(cs) == {cs[n].chunk_type : n \in 1..Len(cs)}

\* the heading a heading chunk holds
HeadingOf(c) == [level |-> HeadingLevel(c.content), text |-> HeadingText(c.content)]

\* the headings of the heading chunks among the first n chunks, in order
HeadingsAmong(cs, n) ==
    LET hc == SelectSeq(SubSeq(cs, 1, n), LAMBDA c : c.chunk_type = "heading")
    IN  [m \in 1..Len(hc) |-> HeadingOf(hc[m])]

\* the stack after the headings hs: each heading of level L removes every
\* entry of level >= L and is then pushed
RECURSIVE RefStack(_)
RefStack(hs) ==
    IF hs = <<>> THEN <<>>
    ELSE SelectSeq(RefStack(Front(hs)), LAMBDA e : ~(e.level >= Last(hs).level))
            \o <<Last(hs)>>

PathOf(stack) == Join([n \in 1..Len(stack) |-> stack[n].text], HierarchySep)

StrictlyIncreasing(stack) ==
    \A a, b \in 1..Len(stack) : a < b => stack[a].level < stack[b].level

NestedText == Join(NestedDoc, <<"\n">>)

-----------------------------------------------------------------------------
(* Properties of the chunker (ChunkSpec) *)

\* C3: the hierarchy of every non-heading chunk is the " > "-join of the
\* stack obtained from the headings before it, each heading of level L
\* removing the entries of level >= L before it is pushed; the levels of the
\* stack are strictly increasing in every state; after "# A", "## B",
\* "### C" a paragraph has "A > B > C" and a paragraph after "## D" has
\* "A > D".
C3_HierarchyOfContent ==
    /\ StrictlyIncreasing(current_heading_context)
    /\ \A n \in 1..Len(chunks) :
          chunks[n].chunk_type # "heading" =>
            chunks[n].heading_hierarchy = PathOf(RefStack(HeadingsAmong(chunks, n)))
    /\ (pc = "done" /\ content = NestedText) =>
          /\ chunks[4].chunk_type = "paragraph"
          /\ chunks[4].heading_hierarchy
                = <<"A", " ", ">", " ", "B", " ", ">", " ", "C">>
          /\ chunks[6].chunk_type = "paragraph"
          /\ chunks[6].heading_hierarchy = <<"A", " ", ">", " ", "D">>

C3_Witness ==
    /\ pc = "done"
    /\ content = NestedText
    /\ Len(chunks) = 6
    /\ chunks[6].heading_hierarchy = <<"A", " ", ">", " ", "D">>

\* the entries of the stack before chunk n that are strictly shallower than
\* the heading chunk n holds
AncestorsOf(cs, n) ==
    SelectSeq(RefStack(HeadingsAmong(cs, n - 1)),
              LAMBDA e : e.level < HeadingOf(cs[n]).level)

C7_Contiguous ==
    \A n \in 1..Len(chunks) : chunks[n].chunk_index = n - 1

\* a finished run with a length-guard flush, and one with four types
C7_Witness ==
    /\ pc = "done"
    /\ \/ Cardinality(TypesOf(chunks)) >= 4
       \/ /\ Len(chunks) >= 3
          /\ \E n \in 1..Len(chunks) : chunks[n].word_count > ParagraphWordLimit

\* the place of line n with respect to the fenced blocks: "open" (an opening
\* fence), "in", "close" (the closing fence) or "out"
RECURSIVE FenceRole(_, _)
FenceRole(ls, n) ==
    LET fenced == n > 1 /\ FenceRole(ls, n - 1) \in {"open", "in"}
        fence == IsFenceLine(Strip(ls[n]))
    IN  IF fenced THEN (IF fence THEN "close" ELSE "in")
        ELSE (IF fence THEN "open" ELSE "out")

\* the opening fences, in order
Openings(ls) == Ascending({n \in 1..Len(ls) : FenceRole(ls, n) = "open"})

\* the last line of the block opened at line o
BlockEnd(ls, o) ==
    LET closes == {n \in (o + 1)..Len(ls) : FenceRole(ls, n) = "close"}
    IN  IF closes = {} THEN Len(ls) ELSE SetMin(closes)

\* the text of the block opened at line o: the trimmed opening line, then the
\* lines up to its end as they are
BlockText(ls, o) ==
    Join(<<Strip(ls[o])>> \o SubSeq(ls, o + 1, BlockEnd(ls, o)), <<"\n">>)

\* the lines among the first n that lie outside every block and are of kind
OutsideLines(ls, n, kind) ==
    {m \in 1..n : FenceRole(ls, m) = "out" /\ LineKind(ls[m]) = kind}

\* the number of non-blank lines held by the chunks of a type
NonBlankLines(text) ==
    Cardinality({n \in 1..Len(SplitLines(text)) : Strip(SplitLines(text)[n]) # <<>>})
LinesHeldBy(cs, type) ==
    LET of == SelectSeq(cs, LAMBDA c : c.chunk_type = type)
    IN  Sum([n \in 1..Len(of) |-> NonBlankLines(of[n].raw_content)])

CodeChunks(cs) == SelectSeq(cs, LAMBDA c : c.chunk_type = "code")

\* the headings of the heading lines outside the blocks among the first n lines
OutsideHeadings(ls, n) ==
    LET at == Ascending(OutsideLines(ls, n, "heading"))
    IN  [m \in 1..Len(at) |->
            [level |-> HeadingLevel(Strip(ls[at[m]])),
             text |-> HeadingText(Strip(ls[at[m]]))]]

Consumed == IF i > Len(lines) THEN Len(lines) ELSE i

\* the blocks opened among the lines consumed so far
OpenedSoFar == SelectSeq(Openings(lines), LAMBDA o : o <= Consumed)

\* C5: every line from an opening fence to its closing fence goes into one
\* code chunk and is classified by no other rule; a block holding lines that
\* look like headings, table rows or list items yields one code chunk, no
\* heading, table or list chunk, and leaves the heading stack as it was.
C5_FenceOpacity ==
    /\ Len(CodeChunks(chunks)) = Len(OpenedSoFar)
    /\ \A n \in 1..Len(OpenedSoFar) :
          CodeChunks(chunks)[n].raw_content = BlockText(lines, OpenedSoFar[n])
    /\ current_heading_context = RefStack(OutsideHeadings(lines, Consumed))
    /\ pc = "done" =>
          \A type \in {"heading", "table", "list", "paragraph"} :
              LinesHeldBy(chunks, type)
                  = Cardinality(OutsideLines(lines, Len(lines), type))

\* a finished run over a block that holds a heading-like line
C5_Witness ==
    /\ pc = "done"
    /\ \E n \in 1..Len(lines) :
          FenceRole(lines, n) = "in" /\ LineKind(lines[n]) = "heading"
    /\ \E n \in 1..Len(lines) : FenceRole(lines, n) = "close"
    /\ TypesOf(chunks) = {"code"}

\* the last block has no closing fence
Unterminated(ls) ==
    /\ Openings(ls) # <<>>
    /\ \A n \in Last(Openings(ls))..Len(ls) : FenceRole(ls, n) # "close"

\* C6: with an opening fence that is never closed the scan passes the last
\* line without reading beyond it, and the finished run has emitted one code
\* chunk for that fence, holding the opening line and all remaining lines,
\* with no chunk after it.
C6_UnterminatedFence ==
    /\ i <= Len(lines) + 1
    /\ i = Len(lines) + 1 => Unterminated(lines)
    /\ (pc = "done" /\ Unterminated(lines)) =>
          /\ chunks # <<>>
          /\ Last(chunks).chunk_type = "code"
          /\ Last(chunks).raw_content
                = Join(<<Strip(lines[Last(Openings(lines))])>>
                         \o SubSeq(lines, Last(Openings(lines)) + 1, Len(lines)),
                       <<"\n">>)
          /\ Len(CodeChunks(chunks)) = Len(Openings(lines))

\* a finished run whose unterminated block is followed by further lines
C6_Witness ==
    /\ pc = "done"
    /\ Unterminated(lines)
    /\ Last(Openings(lines)) + 2 <= Len(lines)
    /\ \E n \in 1..Len(lines) :
          FenceRole(lines, n) = "in" /\ LineKind(lines[n]) # "blank"
    /\ Last(chunks).chunk_type = "code"

\* the document is one paragraph of 1200 words, on one line or several
Paragraph1200(ls) ==
    /\ \A n \in 1..Len(ls) : LineKind(ls[n]) = "paragraph"
    /\ Sum([n \in 1..Len(ls) |-> WordCount(ls[n])]) = 1200

\* C8 as stated: a paragraph of 1200 words is split into at least two
\* paragraph chunks of at most 500 words each, no word lost or duplicated.
C8_LongParagraphIsSplit ==
    (pc = "done" /\ Paragraph1200(lines)) =>
        /\ Len(chunks) >= 2
        /\ \A n \in 1..Len(chunks) :
              /\ chunks[n].chunk_type = "paragraph"
              /\ chunks[n].word_count <= ParagraphWordLimit
        /\ Sum([n \in 1..Len(chunks) |-> chunks[n].word_count]) = 1200

-----------------------------------------------------------------------------
(* Properties of the chunk store (StoreSpec) *)

Range(q) == {q[n] : n \in 1..Len(q)}

\* the rows stored for a document
RowsOf(rows, path) == {r \in rows : r.document_path = path}

\* rows with the ingestion time left out
Unstamped(rows) == {[r EXCEPT !.created_at = 0] : r \in rows}

\* C1 as stated: after an ingestion the rows stored for the document are
\* exactly the chunks of that ingestion; no chunk of an earlier ingestion of
\* the same path remains.
C1_ReingestReplaces ==
    last.path # <<>> =>
        RowsOf(db, last.path)
            = Range(process_document(last.path, last.data, last.at))

\* C2 as stated: storing the chunks of one document leaves the rows of every
\* other document path as they were.
C2_OtherDocumentsUntouched ==
    [][now' # now =>
          \A path \in Paths \ {last'.path} : RowsOf(db', path) = RowsOf(db, path)]_vars

\* C9: ingesting a document again, unchanged, right after its ingestion
\* leaves the same rows for it: as many, with the same chunk_id, type,
\* content and hierarchy; only created_at may differ.
C9_Idempotent ==
    [][(now' # now /\ last'.repeat) =>
          /\ Cardinality(RowsOf(db', last'.path)) = Cardinality(RowsOf(db, last'.path))
          /\ Unstamped(RowsOf(db', last'.path)) = Unstamped(RowsOf(db, last'.path))]_vars

\* a document with chunks was ingested twice in a row, and its rows carry the
\* time of the second ingestion
C9_Witness ==
    /\ last.repeat
    /\ last.at >= 2
    /\ Cardinality(RowsOf(db, last.path)) >= 2
    /\ \A r \in RowsOf(db, last.path) : r.created_at = last.at

-----------------------------------------------------------------------------
(* Properties of detect_duplicates (DupSpec) *)

\* the positions of fp whose digest occurs at an earlier position
LaterPositions(fp, dg) ==
    {n \in 1..Len(fp) : \E e \in 1..(n - 1) : dg[fp[e]] = dg[fp[n]]}

\* the earliest position holding the digest of position n
EarliestOf(fp, dg, n) == SetMin({e \in 1..n : dg[fp[e]] = dg[fp[n]]})

\* every later position, in order, paired with the earliest path of its digest
RefDuplicates(fp, dg) ==
    LET at == Ascending(LaterPositions(fp, dg))
    IN  [m \in 1..Len(at) |-> <<fp[at[m]], fp[EarliestOf(fp, dg, at[m])]>>]

\* C10: detect_duplicates reports exactly the paths whose digest occurred at
\* an earlier position, each with the earliest path of that digest (in
\* sequence order); the first path of a digest is never reported; for
\* digests H1, H2, H1 it reports only (third, first).
C10_DuplicatesOfEarliest ==
    /\ duplicates = RefDuplicates(SubSeq(file_paths, 1, k), digest)
    /\ \A n \in 1..Len(duplicates) :
          \A e \in 1..k :
              EarliestOf(file_paths, digest, e) = e => duplicates[n][1] # file_paths[e]
    /\ (/\ dpc = "done"
        /\ Len(file_paths) = 3
        /\ digest[file_paths[1]] = digest[file_paths[3]]
        /\ digest[file_paths[2]] # digest[file_paths[1]]) =>
          duplicates = <<<<file_paths[3], file_paths[1]>>>>

\* digests H1, H2, H1 with the first path after the third in name order
C10_Witness ==
    /\ dpc = "done"
    /\ file_paths = <<"c.pdf", "b.pdf", "a.pdf">>
    /\ digest["c.pdf"] = "H1" /\ digest["b.pdf"] = "H2" /\ digest["a.pdf"] = "H1"
    /\ duplicates = <<<<"a.pdf", "c.pdf">>>>

\* store_chunks called for changing documents while a reader queries the
\* table by document
TxInit == ChunkerIdle /\ StoreIdle /\ DupIdle /\ PipeIdle /\ TxIdle /\ ListIdle /\ JobIdle

TxNext ==
    \/ \E path \in TxPaths, data \in StoreTexts : BeginStore(path, data)
    \/ StoreChunk
    \/ Commit
    \/ \E path \in TxPaths : Query("all", "document_path" :> path)

TxSpec == TxInit /\ [][TxNext]_vars

\* query_chunks called in every way on a table holding two documents
QueryTypes == {"all", "by_type"}

QueryFilters ==
    {ct @@ dp @@ hh :
        ct \in {NoFilters} \cup {"chunk_type" :> t : t \in {"heading", "paragraph"}},
        dp \in {NoFilters} \cup {"document_path" :> path : path \in Paths},
        hh \in {NoFilters} \cup {"heading_hierarchy" :> h : h \in {<<"a">>, <<"B">>}}}

QueryInit ==
    /\ files = [p \in Paths |-> NoFile]
    /\ \E p1, p2 \in Paths, t1, t2 \in StoreTexts :
          /\ p1 # p2
          /\ db = store_chunks(store_chunks({}, process_document(p1, t1, 1)),
                               process_document(p2, t2, 2))
    /\ now = 2
    /\ last = [path |-> <<>>, data |-> NoFile, at |-> 0, repeat |-> FALSE]
    /\ ChunkerIdle
    /\ DupIdle
    /\ PipeIdle
    /\ TxIdle /\ ListIdle /\ JobIdle

QueryNext == \E query_type \in QueryTypes, filters \in QueryFilters :
                 Query(query_type, filters)

QuerySpec == QueryInit /\ [][QueryNext]_vars

\* process_document run once on one of many small documents
IndentedH1D == <<" ", "#", " ", "D">>
DocVocab == {H1A, IndentedH1D, H2B, Fence, TextLine, BlankLine}
DocTexts == {Join(d, <<"\n">>) : d \in SeqsUpTo(DocVocab, MaxLines)}

DocInit == TxInit

DocNext == \E path \in TxPaths, data \in DocTexts : BeginStore(path, data)

DocSpec == DocInit /\ [][DocNext]_vars

\* list_files called twice on one directory tree, and extract_text run on
\* the files of the first list
FileNameSet ==
    {<<"a", ".", "p", "d", "f">>, <<"B", ".", "P", "D", "F">>,
     <<"c", ".", "D", "o", "c", "x">>, <<"d", ".", "t", "x", "t">>}

ExtensionLists == {DefaultExtensions, <<<<".", "P", "D", "F">>>>, <<ExtPdf, <<".", "t", "x", "t">>>>}

ListInit ==
    /\ dir_entries \in {S \in SUBSET ({WalkDirs[1], WalkDirs[2]} \X FileNameSet) :
                            Cardinality(S) <= MaxFiles}
    /\ extensions \in ExtensionLists
    /\ listed = <<>>
    /\ extracted = <<>>
    /\ ChunkerIdle /\ StoreIdle /\ DupIdle /\ PipeIdle
    /\ TxIdle
    /\ JobIdle

ListNext == ListFiles \/ ExtractNext

ListSpec == ListInit /\ [][ListNext]_vars

\* the job endpoints called in any order while background runs finish
JobInit ==
    /\ JobIdle
    /\ ListIdle
    /\ ChunkerIdle /\ StoreIdle /\ DupIdle /\ PipeIdle
    /\ TxIdle

JobNext ==
    \/ \E job_id \in JobIds, directory \in Directories :
          process_documents(job_id, directory)
    \/ \E task \in tasks : run_processing_job(task)
    \/ \E job_id \in JobIds : get_status(job_id)

JobSpec == JobInit /\ [][JobNext]_vars

-----------------------------------------------------------------------------
(* process_file_pipeline: properties *)

\* the pipeline has left its function body, by return or by exception
PipeEnded == ppc \in {"returned", "raised"}

\* the result record appended for a path, if any
RecordsOf(path) == {n \in 1..Len(results) : results[n].file = path}

\* some call of a collaborator has raised
CollaboratorRaised ==
    \E n \in 1..Len(calls) :
        /\ calls[n].op \in {"classify_document", "match_policy"}
        /\ calls[n].outcome = "raised"

\* C11: in the result records, is_duplicate is true exactly for the files
\* whose digest equals the digest of a file earlier in walk order; the first
\* file of every digest has is_duplicate false, also when later files repeat
\* its digest.
C11_FlagMarksLaterFilesOnly ==
    \A n \in 1..Len(results) :
        /\ results[n].file = file_paths[n]
        /\ results[n].is_duplicate <=> n \in LaterPositions(file_paths, digest)
        /\ EarliestOf(file_paths, digest, n) = n => ~results[n].is_duplicate

\* C12: an exception of the classification or policy collaborator for one
\* document does not abort the batch: the pipeline returns, and its result
\* holds one record for every file of the batch.
C12_CollaboratorFailureIsRecorded ==
    (PipeEnded /\ CollaboratorRaised) =>
        /\ ppc = "returned"
        /\ \A n \in 1..Len(file_paths) : Cardinality(RecordsOf(file_paths[n])) = 1

\* C13: an I/O error while hashing one file is recorded for that file only:
\* detect_duplicates and the pipeline end by returning, and every readable
\* file of the batch has its result record.
C13_IOErrorIsPerFile ==
    (PipeEnded /\ \E n \in 1..Len(file_paths) :
                      compute_file_hash(file_paths[n]) = IOError) =>
        /\ dpc = "done"
        /\ ppc = "returned"
        /\ \A n \in 1..Len(file_paths) :
              compute_file_hash(file_paths[n]) # IOError =>
                  Cardinality(RecordsOf(file_paths[n])) = 1

\* C14: an invalid root path is an error reported before any work starts:
\* the pipeline never completes successfully, with an empty result list,
\* for a root that is not an existing directory.
C14_InvalidRootIsAnError ==
    ~root_valid => ppc # "returned"

\* C19: for every document, the pipeline has run the chunker on the
\* extracted text and stored the chunks before it calls the classification
\* or the policy collaborator for that document.
C19_ChunkAndStoreBeforeCollaborators ==
    \A n \in 1..Len(calls) :
        calls[n].op \in {"classify_document", "match_policy"} =>
            \E c, s \in 1..(n - 1) :
                /\ c < s
                /\ calls[c] = Call("smart_chunk_content", calls[n].file, "ok")
                /\ calls[s] = Call("store_chunks", calls[n].file, "ok")

-----------------------------------------------------------------------------
(* the chunk store: uniqueness *)

\* C18: after any sequence of store_chunks calls (first ingestions,
\* re-ingestions with changed content, several documents) no two rows share
\* (document_path, chunk_index) and no two rows share chunk_id.
C18_KeysAreUnique ==
    \A x, y \in db :
        x # y =>
            /\ x.chunk_id # y.chunk_id
            /\ ~(x.document_path = y.document_path /\ x.chunk_index = y.chunk_index)

\* a document re-ingested with changed content next to a row of its earlier
\* ingestion, and another document in the store
C18_Witness ==
    \E x, y, z \in db :
        /\ x.document_path = y.document_path
        /\ x.chunk_index = 0 /\ y.chunk_index = 1
        /\ x.created_at > y.created_at
        /\ z.document_path # x.document_path

-----------------------------------------------------------------------------
(* store_chunks step by step: properties *)

\* C15: a reader interleaved at any point with store_chunks for a document,
\* or running after it, gets for that document either the complete previous
\* chunk list or the complete new chunk list, never a mix and never a part,
\* also when a chunk write of the batch has failed.
C15_ReaderSeesOldOrNew ==
    [][\A path \in TxPaths :
          (seen' # seen /\ seen'.filters = ("document_path" :> path)) =>
              seen'.rows \in {docsets[path].old, docsets[path].new}]_vars

\* C16: when the write of one chunk fails inside store_chunks, the loop
\* still handles every chunk, the failures are the reported positions, and
\* after the commit every chunk whose write did not fail is in the table;
\* no failure keeps store_chunks from reaching its commit.
C16_StoreAndContinue ==
    /\ failed \subseteq 1..spos
    /\ spc = "done" =>
          /\ spos = Len(to_store)
          /\ conn = NoConn
          /\ \A n \in 1..Len(to_store) : n \notin failed => to_store[n] \in db

\* a batch of two chunks whose first write failed: the second is committed
C16_Witness ==
    /\ spc = "done"
    /\ Len(to_store) = 2
    /\ failed = {1}
    /\ to_store[1] \notin db
    /\ to_store[2] \in db

-----------------------------------------------------------------------------
(* query_chunks: properties *)

\* C17: query_chunks called with a chunk_type filter returns only chunks of
\* exactly that chunk_type, and every returned chunk also satisfies the
\* document_path and heading_hierarchy filters given with it, whatever the
\* value of query_type.
C17_TypeFilterAlwaysApplies ==
    "chunk_type" \in DOMAIN seen.filters =>
        \A n \in 1..Len(seen.rows) :
            /\ seen.rows[n].chunk_type = seen.filters["chunk_type"]
            /\ "document_path" \in DOMAIN seen.filters =>
                   seen.rows[n].document_path = seen.filters["document_path"]
            /\ "heading_hierarchy" \in DOMAIN seen.filters =>
                   Like(seen.rows[n].heading_hierarchy,
                        seen.filters["heading_hierarchy"])

-----------------------------------------------------------------------------
(* smart_chunk_content: raw_content *)

\* C20: the raw_content of every chunk, of whatever type, is the original
\* text exactly as it appeared: the newline-join of a run of consecutive
\* input lines, each with its leading and trailing whitespace, blank and
\* whitespace-only lines included as they were.
C20_RawContentIsVerbatim ==
    \A n \in 1..Len(chunks) :
        \E a, b \in 1..Len(lines) :
            /\ a <= b
            /\ chunks[n].raw_content = Join(SubSeq(lines, a, b), <<"\n">>)

-----------------------------------------------------------------------------
(* process_document: title and chunk ids *)

\* the positions of the level-1 heading chunks among the rows
TopHeadings(rows) ==
    {n \in 1..Len(rows) : rows[n].chunk_type = "heading" /\ rows[n].heading_level = 1}

\* the title as the chunker sees the document: the text of its first
\* level-1 heading chunk, else the filename stem
ChunkerTitle(rows, path) ==
    IF TopHeadings(rows) = {} THEN <<Stem(path)>>
    ELSE HeadingText(rows[SetMin(TopHeadings(rows))].content)

\* C21: the document_title of every chunk is the text of the first level-1
\* heading chunk of the document, and the filename stem when the chunker
\* produces none; a '# ...' line inside a fence never becomes the title and
\* an indented level-1 heading does.
C21_TitleIsFirstTopHeadingChunk ==
    \A n \in 1..Len(to_store) :
        to_store[n].document_title =
            ChunkerTitle(to_store, to_store[n].document_path)

\* C25: within one ingested document all chunk_ids are pairwise distinct,
\* also for two chunks of identical content at different indices, and the id
\* is determined by (filename stem, chunk index, content) alone, so the same
\* triple gives the same id at every ingestion.
C25_IdsDistinctAndDeterministic ==
    /\ \A n, m \in 1..Len(to_store) :
          n # m => to_store[n].chunk_id # to_store[m].chunk_id
    /\ \A n \in 1..Len(to_store) :
          to_store[n].chunk_id =
              generate_chunk_id(to_store[n].document_path,
                                to_store[n].chunk_index, to_store[n].content)

\* two heading chunks of identical content at indices 0 and 1
C25_Witness ==
    /\ Len(to_store) >= 2
    /\ to_store[1].content = to_store[2].content
    /\ to_store[1].chunk_index # to_store[2].chunk_index

-----------------------------------------------------------------------------
(* smart_chunk_content: end-to-end sequence, emptiness, conservation,       *)
(* homogeneity                                                              *)

EndToEndText == Join(EndToEndDoc, <<"\n">>)

\* C22: a level-1 heading, a paragraph line, a level-2 heading, two list
\* items and a block fenced with three backticks and 'text' give exactly
\* five chunks: heading, paragraph, heading, list (both items), code
\* (language 'text'); the list and code chunks have hierarchy 'A > B', the
\* paragraph has hierarchy 'A'.
C22_EndToEndSequence ==
    (pc = "done" /\ content = EndToEndText) =>
        /\ [n \in 1..Len(chunks) |-> chunks[n].chunk_type] =
              <<"heading", "paragraph", "heading", "list", "code">>
        /\ chunks[2].heading_hierarchy = <<"A">>
        /\ chunks[4].raw_content = Join(<<ListLine, ListLine>>, <<"\n">>)
        /\ chunks[4].heading_hierarchy = <<"A">> \o HierarchySep \o <<"B">>
        /\ chunks[5].heading_hierarchy = <<"A">> \o HierarchySep \o <<"B">>
        /\ chunks[5].code_language = <<"t", "e", "x", "t">>
        /\ chunks = smart_chunk_content(EndToEndText)

\* the end-to-end document scanned to its end
C22_Witness ==
    /\ pc = "done"
    /\ content = EndToEndText
    /\ Len(chunks) = 5

\* the lines of a text that hold something besides whitespace, stripped
NonBlank(ls) ==
    SelectSeq([n \in 1..Len(ls) |-> Strip(ls[n])], LAMBDA l : l # <<>>)

\* the lines of the chunks, in chunk order
RECURSIVE ChunkLines(_)
ChunkLines(cs) ==
    IF cs = <<>> THEN <<>>
    ELSE SplitLines(Head(cs).raw_content) \o ChunkLines(Tail(cs))

\* C26: a chunk is emitted only for a buffer holding a non-blank line: every
\* emitted chunk has non-empty content and word_count >= 1, an open buffer
\* starts with a non-blank line, and a document without any non-blank line
\* is scanned to its end with zero chunks.
C26_NoEmptyChunk ==
    /\ \A n \in 1..Len(chunks) :
          chunks[n].content # <<>> /\ chunks[n].word_count >= 1
    /\ current_chunk # <<>> => Strip(current_chunk[1]) # <<>>
    /\ NonBlank(lines) = <<>> => (chunks = <<>> /\ current_chunk = <<>>)

\* a document of whitespace-only and empty lines, scanned to its end
C26_Witness ==
    /\ pc = "done"
    /\ lines = <<WhitespaceLine, BlankLine, WhitespaceLine>>
    /\ chunks = <<>>

\* C27: every non-blank input line belongs to exactly one emitted chunk and
\* the chunks in index order hold those lines in document order: during the
\* scan the chunks followed by the buffer hold the non-blank lines consumed
\* so far, at the end the chunks hold all of them.
C27_LinesConserved ==
    /\ pc = "scan" =>
          NonBlank(ChunkLines(chunks) \o current_chunk) =
              NonBlank(SubSeq(lines, 1, Consumed))
    /\ pc = "done" => NonBlank(ChunkLines(chunks)) = NonBlank(lines)

\* a finished scan over a full-length document with a blank line, flushed by
\* three types of chunk; and one flushed by the length guard
C27_Witness ==
    /\ pc = "done"
    /\ \/ /\ Len(lines) = MaxLines
          /\ Cardinality(TypesOf(chunks)) >= 3
          /\ \E n \in 1..Len(lines) : lines[n] = BlankLine
       \/ /\ Len(chunks) = 2
          /\ chunks[1].word_count > ParagraphWordLimit

\* the non-blank lines of a chunk
LinesOfChunk(c) == NonBlank(SplitLines(c.raw_content))

\* C28: a heading chunk's content is exactly one heading line; the non-blank
\* lines of a table chunk are table rows, of a list chunk list items, and
\* those of a paragraph chunk match no heading, fence, table or list
\* pattern; the pending buffer holds lines of its own type only, and right
\* after a code chunk the buffer is empty with type 'paragraph'.
C28_Homogeneous ==
    /\ \A n \in 1..Len(chunks) :
          /\ chunks[n].chunk_type = "heading" =>
                /\ Len(SplitLines(chunks[n].content)) = 1
                /\ LineKind(chunks[n].content) = "heading"
          /\ chunks[n].chunk_type \in {"table", "list", "paragraph"} =>
                \A m \in 1..Len(LinesOfChunk(chunks[n])) :
                    LineKind(LinesOfChunk(chunks[n])[m]) = chunks[n].chunk_type
    /\ pc = "scan" =>
          \A m \in 1..Len(NonBlank(current_chunk)) :
              LineKind(NonBlank(current_chunk)[m]) = current_type
    /\ (pc = "scan" /\ Consumed >= 1 /\ FenceRole(lines, Consumed) # "out") =>
          /\ Last(chunks).chunk_type = "code"
          /\ current_chunk = <<>>
          /\ current_type = "paragraph"

\* a finished scan that met a table row, a list item and a paragraph line
\* one after the other, and a scan standing right after a fenced block
C28_Witness ==
    \/ /\ pc = "done"
       /\ {"table", "list", "paragraph"} \subseteq TypesOf(chunks)
    \/ /\ pc = "scan"
       /\ Consumed >= 2
       /\ FenceRole(lines, Consumed) = "close"
       /\ Len(chunks) >= 2

-----------------------------------------------------------------------------
(* list_files, extract_text and the job endpoints: properties *)

\* C23: list_files returns the matching files in a stable order: two calls
\* on the same directory tree return the same sequence, whatever order the
\* platform lists the entries in.
C23_ListingOrderIsStable ==
    \A a, b \in 1..Len(listed) : listed[a] = listed[b]

\* C24: a file under the root is returned if and only if its name ends with
\* one of the allowed extensions when case is ignored on both sides, the
\* file name's and the caller's extension's.
C24_ExtensionMatchIgnoresCase ==
    \A a \in 1..Len(listed) :
        {listed[a][n] : n \in 1..Len(listed[a])} =
            {e \in dir_entries :
                \E n \in 1..Len(extensions) :
                    EndsWith(str_lower(e[2]), str_lower(extensions[n]))}

\* C30: every path list_files returns under the default extensions is
\* dispatched by extract_text to a format-specific extractor, never to the
\* branch returning the empty string.
C30_ListedFilesAreExtracted ==
    extensions = DefaultExtensions =>
        \A n \in 1..Len(extracted) : extracted[n].extractor # "none"

\* the background run of the latest submission of a job_id is still pending
LatestPending(job_id) ==
    \E task \in tasks : task.job_id = job_id /\ task.sub = latest[job_id]

\* C29: the entry get_status returns reflects the latest submission of the
\* job_id: 'processing' while that submission's own run is pending, and
\* afterwards the 'complete' or 'error' entry written by that run, for every
\* interleaving of the runs of two submissions of one job_id.
C29_StatusReflectsLatestSubmission ==
    [][(got' # got /\ latest[got'.job_id] > 0) =>
          IF LatestPending(got'.job_id)
          THEN got'.answer.status = "processing"
          ELSE /\ got'.answer.status \in {"complete", "error"}
               /\ writer[got'.job_id] = latest[got'.job_id]]_vars

====
